---------------------------- MODULE Spec2Model ----------------------------
(***************************************************************************)
(* Text normalizer (DAY_1/text_cleaner.py), word-window chunker            *)
(* (DAY_2/chunking_utility.py) and lexical FAQ matcher                     *)
(* (DAY_1/faq_finder.py).  Python strings are TLA+ strings; a character is *)
(* a string of length one.  Floats that arise as quotients of small        *)
(* integers are kept as exact fractions <<numerator, denominator>>.        *)
(***************************************************************************)
EXTENDS Integers, Sequences, FiniteSets, TLC

VARIABLES
    nText,          \* Normalizer: the argument of the last clean_text call
    nClean,         \* Normalizer: the value clean_text returned
    nPc,            \* Normalizer: "input", "cleaned", "recleaned"
    constructed,    \* Chunker: TRUE once TextChunker.__init__ has returned
    chunk_size,     \* Chunker: self.chunk_size
    overlap,        \* Chunker: self.overlap
    cOp,            \* Chunker: the last operation, "none", "init", "chunk_by_words",
                    \*   "chunk_by_sentences", "chunk_text", "get_chunk_stats"
    cText,          \* Chunker: the text handed to the chunking calls
    cMethod,        \* Chunker: chunk_text's argument method
    cResult,        \* Chunker: whether the last call returned or what it raised
    chunks,         \* Chunker: the list the last chunking call returned
    stats,          \* Chunker: what the last get_chunk_stats call returned or raised
    wPc,            \* Chunker: where a chunk_by_words call run step by step stands,
                    \*   "idle", "loop" or "done"
    wWords,         \* Chunker: words of that call
    wStart,         \* Chunker: start of that call
    wChunkId,       \* Chunker: chunk_id of that call
    faqs,           \* Matcher: self.faqs
    mOp,            \* Matcher: the last operation, "init", "add_faq", "find_answer"
    user_question,  \* Matcher: find_answer's argument
    threshold,      \* Matcher: find_answer's argument, a fraction
    user_words,     \* Matcher: find_answer's local user_words
    faq_words,      \* Matcher: find_answer's local faq_words, one per entry
    scores,         \* Matcher: find_answer's local score, one per entry
    best_match,     \* Matcher: index into faqs of best_match, 0 for None
    best_score,     \* Matcher: find_answer's local best_score, a fraction
    result,         \* Matcher: what the last operation returned or raised
    added,          \* Matcher: the <<question, answer>> add_faq was called with, in call order
    file,           \* Matcher: the file load_from_file found at its filepath, or none
    xWords,         \* Matcher: the set expand_with_synonyms was given, as its caller holds it
    xExpanded,      \* Matcher: the set expand_with_synonyms returned
    gConstructed,   \* Gemini wrapper: __init__ has returned
    api_key,        \* Gemini wrapper: self.api_key
    temperature,    \* Gemini wrapper: self.temperature
    verbose,        \* Gemini wrapper: self.verbose
    history,        \* Gemini wrapper: self.history
    persona,        \* Gemini wrapper: self.persona
    chat_session,   \* Gemini wrapper: whether the attribute chat_session exists
    gOp,            \* Gemini wrapper: the last operation
    gResult         \* Gemini wrapper: what the last operation returned or raised

nVars == <<nText, nClean, nPc>>
cVars == <<constructed, chunk_size, overlap, cOp, cText, cMethod, cResult,
           chunks, stats, wPc, wWords, wStart, wChunkId>>
mVars == <<faqs, mOp, user_question, threshold, user_words, faq_words,
           scores, best_match, best_score, result, added, file,
           xWords, xExpanded>>
gVars == <<gConstructed, api_key, temperature, verbose, history, persona,
           chat_session, gOp, gResult>>
vars == <<nVars, cVars, mVars, gVars>>

-----------------------------------------------------------------------------
(* Bounds *)

MaxTextLen == 4
NormAlphabet == {"a", "B", "7", "!", " ", "\t"}

MaxChunkTextLen == 7
ChunkAlphabet == {"a", "b", " "}
MaxChunkSize == 3
MaxOverlap == 3

LoopAlphabet == {"a", " "}
MaxChunks == MaxChunkTextLen

MaxFragments == 4
SentenceFragments == {"a. ", "b ", "c? ", " "}
Methods == {"words", "sentences", "paragraphs", ""}

MaxFaqs == 2
Questions == {"How do I register?", "Where is the venue?", "Where is it?", "???"}
Answers == {"A1", "A2"}
Queries == {"How can I sign up?", "Where is it?", "where", "venue",
            "What's the weather like?", "?!", ""}
Thresholds == {<<-1, 1>>, <<0, 1>>, <<15, 100>>, <<1, 1>>}

MaxLines == 2
FileLines == {"Is it free?|Yes", " Where? | Hall | Gate 2 ",
              "no delimiter", "", "   ", "|"}

ExpandWords == {"time", "start", "when", "sign", "venue", "fee", "hello"}

gdg_faqs ==
    <<<<"How do I register for the event?",
        "Visit our website at gdg.community.dev and click the 'Register' button on the event page.">>,
      <<"What is the event schedule?",
        "The workshop runs from 9:00 AM to 5:00 PM with lunch break at 12:30 PM.">>,
      <<"Where is the venue located?",
        "The event is at Tech Hub Innovation Center, 123 Innovation Street, Downtown.">>,
      <<"Is there a registration fee?",
        "No, all GDG events are completely free to attend!">>,
      <<"What should I bring to the workshop?",
        "Bring your laptop with Python 3.8+ installed, a charger, and enthusiasm to learn!">>,
      <<"Can beginners attend?",
        "Absolutely! Our workshops are designed for all skill levels, from beginners to advanced.">>,
      <<"Will there be food?",
        "Yes! We provide coffee, snacks throughout the day, and lunch.">>,
      <<"What technologies will be covered?",
        "We'll cover Python, AI fundamentals, vector databases, RAG systems, and LLM integration.">>>>
test_queries == {"How can I sign up?", "What time does it start?",
                 "Do I need to pay anything?", "Where is it happening?",
                 "What do I need to bring?"}
unrelated == {"What's the weather like?", "Who won the game yesterday?"}

ApiKeys == {<<>>, <<"">>, <<"key">>}
EnvKeys == {<<>>, <<"envkey">>}
Temperatures == {<<0, 1>>, <<7, 10>>, <<1, 1>>}
Personas == {"You are a helpful teacher."}
Prompts == {"What is Python in one sentence?"}
Messages == {"My favorite color is blue", "What's my favorite color?"}

ScenarioFaqs == {<<"How do I register for the event?", "Visit our website...">>,
                 <<"Is there a registration fee?", "Free to attend">>}
ScenarioQueries == {"How can I sign up?", "What time does it start?",
                    "Do I need to pay anything?", "Where is it happening?",
                    "What do I need to bring?", "What's the weather like?"}

-----------------------------------------------------------------------------
(* Python string primitives *)

CharAt(s, i) == SubSeq(s, i, i)

UpperCase == "ABCDEFGHIJKLMNOPQRSTUVWXYZ"
LowerCase == "abcdefghijklmnopqrstuvwxyz"
Digits == "0123456789"

\* the characters str.strip(), str.split() and the regex class \s treat as
\* whitespace (the ASCII ones that occur in the inputs)
WhitespaceChars == {" ", "\t", "\n", "\r"}
IsWhitespace(c) == c \in WhitespaceChars

\* the regex class a-z0-9
LowerAlnumChars ==
    {CharAt(LowerCase, i) : i \in 1..Len(LowerCase)}
        \cup {CharAt(Digits, i) : i \in 1..Len(Digits)}
IsLowerAlnum(c) == c \in LowerAlnumChars

\* str.lower() on one character
LowerMap ==
    [c \in {CharAt(UpperCase, i) : i \in 1..Len(UpperCase)} |->
        CharAt(LowerCase, CHOOSE i \in 1..Len(UpperCase) : CharAt(UpperCase, i) = c)]
lower_char(c) == IF c \in DOMAIN LowerMap THEN LowerMap[c] ELSE c

RECURSIVE lower(_)
lower(s) ==
    IF s = "" THEN ""
    ELSE lower_char(CharAt(s, 1)) \o lower(SubSeq(s, 2, Len(s)))

RECURSIVE lstrip(_)
lstrip(s) ==
    IF s # "" /\ IsWhitespace(CharAt(s, 1))
    THEN lstrip(SubSeq(s, 2, Len(s)))
    ELSE s

RECURSIVE rstrip(_)
rstrip(s) ==
    IF s # "" /\ IsWhitespace(CharAt(s, Len(s)))
    THEN rstrip(SubSeq(s, 1, Len(s) - 1))
    ELSE s

strip(s) == rstrip(lstrip(s))

\* re.sub(r'[^a-z0-9\s]', '', text)
RECURSIVE remove_special(_)
remove_special(s) ==
    IF s = "" THEN ""
    ELSE LET c == CharAt(s, 1)
             rest == remove_special(SubSeq(s, 2, Len(s)))
         IN  IF IsLowerAlnum(c) \/ IsWhitespace(c) THEN c \o rest ELSE rest

\* re.sub(r'\s+', ' ', text)
RECURSIVE collapse_spaces(_)
collapse_spaces(s) ==
    IF s = "" THEN ""
    ELSE LET c == CharAt(s, 1)
             tl == SubSeq(s, 2, Len(s))
         IN  IF IsWhitespace(c)
             THEN " " \o collapse_spaces(lstrip(tl))
             ELSE c \o collapse_spaces(tl)

\* TextCleaner.clean_text
clean_text(text) == collapse_spaces(remove_special(strip(lower(text))))

-----------------------------------------------------------------------------
(* Normalizer *)

RECURSIVE StringsUpTo(_, _)
StringsUpTo(alphabet, n) ==
    IF n = 0 THEN {""}
    ELSE LET shorter == StringsUpTo(alphabet, n - 1)
         IN  shorter \cup {s \o c : s \in shorter, c \in alphabet}

NormInit ==
    /\ nText \in StringsUpTo(NormAlphabet, MaxTextLen)
    /\ nClean = ""
    /\ nPc = "input"

CleanText ==
    /\ nPc = "input"
    /\ nClean' = clean_text(nText)
    /\ nPc' = "cleaned"
    /\ UNCHANGED nText

\* clean_text applied to its own result
CleanAgain ==
    /\ nPc = "cleaned"
    /\ nText' = nClean
    /\ nClean' = clean_text(nClean)
    /\ nPc' = "recleaned"



-----------------------------------------------------------------------------
(* Python list and str helpers used by the chunker and the matcher *)

Min(a, b) == IF a < b THEN a ELSE b
Max(a, b) == IF a > b THEN a ELSE b

\* seq[start:end] with Python's treatment of negative and oversized indices
PySlice(seq, start, end) ==
    LET n == Len(seq)
        lo == IF start < 0 THEN Max(start + n, 0) ELSE Min(start, n)
        hi == IF end < 0 THEN Max(end + n, 0) ELSE Min(end, n)
    IN  IF hi <= lo THEN <<>> ELSE SubSeq(seq, lo + 1, hi)

\* length of the leading run of non-whitespace characters of s
RECURSIVE WordLen(_)
WordLen(s) ==
    IF s = "" \/ IsWhitespace(CharAt(s, 1)) THEN 0
    ELSE 1 + WordLen(SubSeq(s, 2, Len(s)))

\* str.split() with no argument
RECURSIVE split(_)
split(s) ==
    LET t == lstrip(s)
    IN  IF t = "" THEN <<>>
        ELSE LET k == WordLen(t)
             IN  <<SubSeq(t, 1, k)>> \o split(SubSeq(t, k + 1, Len(t)))

\* sep.join(words)
RECURSIVE join(_, _)
join(sep, words) ==
    IF Len(words) = 0 THEN ""
    ELSE IF Len(words) = 1 THEN words[1]
    ELSE words[1] \o sep \o join(sep, Tail(words))

\* set(list)
ToSet(seq) == {seq[i] : i \in 1..Len(seq)}

-----------------------------------------------------------------------------
(* Chunker *)

\* WindowEnd not held back at the end of the text
WindowEndUnclamped(start, n) == start + chunk_size

\* chunk_by_words: end = min(start + self.chunk_size, len(words))
WindowEnd(start, n) == Min(start + chunk_size, n)

\* NextStart with the cursor moved one token too far
NextStartSkipping(end) == end - overlap + 1

\* chunk_by_words: start = end - self.overlap
NextStart(end) == end - overlap

WordChunk(words, chunk_id, start, end) ==
    LET chunk_words == PySlice(words, start, end)
    IN  [chunk_id |-> chunk_id,
         text |-> join(" ", chunk_words),
         start_word |-> start,
         end_word |-> end,
         word_count |-> Len(chunk_words),
         method |-> "word-based"]

\* WordNextId leaving the counter where it was
WordNextIdStuck(chunk_id) == chunk_id

\* chunk_by_words: chunk_id += 1
WordNextId(chunk_id) == chunk_id + 1

\* StartInText leaving the loop once only the overlap tokens remain
StartBeforeOverlap(start, n) == start + overlap < n

\* chunk_by_words: while start < len(words)
StartInText(start, n) == start < n

\* the while loop of chunk_by_words
RECURSIVE WordLoop(_, _, _, _)
WordLoop(words, acc, chunk_id, start) ==
    IF ~StartInText(start, Len(words)) THEN acc
    ELSE LET end == WindowEnd(start, Len(words))
             acc2 == Append(acc, WordChunk(words, chunk_id, start, end))
             start2 == NextStart(end)
         IN  IF start2 <= acc2[Len(acc2)].start_word
             THEN acc2
             ELSE WordLoop(words, acc2, WordNextId(chunk_id), start2)

chunk_by_words(text) == WordLoop(split(text), <<>>, 0, 0)

\* the characters of [.!?]
SentenceEnd == {".", "!", "?"}

\* re.split(r'(?<=[.!?])\s+', text); piece is what was read since the last split
RECURSIVE re_split(_, _)
re_split(text, piece) ==
    IF text = "" THEN <<piece>>
    ELSE LET c == CharAt(text, 1)
             rest == SubSeq(text, 2, Len(text))
         IN  IF /\ IsWhitespace(c)
                /\ piece # ""
                /\ CharAt(piece, Len(piece)) \in SentenceEnd
             THEN <<piece>> \o re_split(lstrip(rest), "")
             ELSE re_split(rest, piece \o c)

\* TextChunker.split_into_sentences
split_into_sentences(text) ==
    LET sentences == re_split(text, "")
        stripped == [i \in 1..Len(sentences) |-> strip(sentences[i])]
    IN  SelectSeq(stripped, LAMBDA sentence : sentence # "")

\* TextChunker.count_words
count_words(text) == Len(split(text))

\* SumWords counting nothing for the sentences carried over
SumWordsForgotten(current_chunk) == 0

\* sum(self.count_words(s) for s in current_chunk)
RECURSIVE SumWords(_)
SumWords(current_chunk) ==
    IF current_chunk = <<>> THEN 0
    ELSE count_words(Head(current_chunk)) + SumWords(Tail(current_chunk))

SentenceChunk(chunk_id, current_chunk, current_word_count) ==
    [chunk_id |-> chunk_id,
     text |-> join(" ", current_chunk),
     sentence_count |-> Len(current_chunk),
     word_count |-> current_word_count,
     method |-> "sentence-based"]

\* OverlapSentences taking the sentences from the front of the chunk
OverlapSentencesFromFront(current_chunk) ==
    IF Len(current_chunk) >= 2
    THEN SubSeq(current_chunk, 1, 2)
    ELSE current_chunk

\* chunk_by_sentences: current_chunk[-2:] if len(current_chunk) >= 2 else current_chunk
OverlapSentences(current_chunk) ==
    IF Len(current_chunk) >= 2
    THEN SubSeq(current_chunk, Len(current_chunk) - 1, Len(current_chunk))
    ELSE current_chunk

\* chunk_by_sentences: chunk_id += 1
SentenceNextId(chunk_id) == chunk_id + 1

\* LastChunkPending forgetting the sentences gathered when the loop ends
LastChunkForgotten(current_chunk) == FALSE

\* chunk_by_sentences: if current_chunk, after the loop
LastChunkPending(current_chunk) == current_chunk # <<>>

\* the for loop of chunk_by_sentences and the final chunk after it
RECURSIVE SentenceLoop(_, _, _, _, _, _)
SentenceLoop(sentences, i, acc, current_chunk, current_word_count, chunk_id) ==
    IF i > Len(sentences)
    THEN IF LastChunkPending(current_chunk)
         THEN Append(acc, SentenceChunk(chunk_id, current_chunk, current_word_count))
         ELSE acc
    ELSE LET sentence == sentences[i]
             sentence_word_count == count_words(sentence)
             close == /\ current_word_count + sentence_word_count > chunk_size
                      /\ current_chunk # <<>>
             acc2 == IF close
                     THEN Append(acc, SentenceChunk(chunk_id, current_chunk,
                                                    current_word_count))
                     ELSE acc
             current2 == IF close THEN OverlapSentences(current_chunk)
                         ELSE current_chunk
             count2 == IF close THEN SumWords(current2) ELSE current_word_count
             id2 == IF close THEN SentenceNextId(chunk_id) ELSE chunk_id
         IN  SentenceLoop(sentences, i + 1, acc2, Append(current2, sentence),
                          count2 + sentence_word_count, id2)

chunk_by_sentences(text) ==
    SentenceLoop(split_into_sentences(text), 1, <<>>, <<>>, 0, 0)

\* the message of chunk_text's ValueError
UnknownMethod(method) ==
    "Unknown method: " \o method \o ". Use 'words' or 'sentences'"

\* chunk_text taking every method other than 'words' for 'sentences'
chunk_text_defaulting(text, method) ==
    IF method = "words"
    THEN [outcome |-> "return", value |-> chunk_by_words(text)]
    ELSE [outcome |-> "return", value |-> chunk_by_sentences(text)]

\* TextChunker.chunk_text
chunk_text(text, method) ==
    IF method = "words"
    THEN [outcome |-> "return", value |-> chunk_by_words(text)]
    ELSE IF method = "sentences"
    THEN [outcome |-> "return", value |-> chunk_by_sentences(text)]
    ELSE [outcome |-> "raise", exception |-> "ValueError",
          message |-> UnknownMethod(method)]

\* sum, min and max of a list of integers; min and max need a non-empty one
RECURSIVE py_sum(_)
py_sum(numbers) ==
    IF numbers = <<>> THEN 0 ELSE Head(numbers) + py_sum(Tail(numbers))

\* py_min looking at the first number only
py_min_of_first(numbers) == numbers[1]

py_min(numbers) ==
    CHOOSE m \in ToSet(numbers) : \A x \in ToSet(numbers) : m <= x

py_max(numbers) ==
    CHOOSE m \in ToSet(numbers) : \A x \in ToSet(numbers) : m >= x

\* get_chunk_stats with its test for an empty list left out
NoChunksUnchecked(chs) == FALSE

\* get_chunk_stats: if not chunks
NoChunks(chs) == Len(chs) = 0

NoChunksProvided == [error |-> "No chunks provided"]

\* TextChunker.get_chunk_stats; the average is the fraction <<sum, len>>
get_chunk_stats(chs) ==
    IF NoChunks(chs)
    THEN [outcome |-> "return", value |-> NoChunksProvided]
    ELSE LET word_counts == [k \in 1..Len(chs) |-> chs[k].word_count]
         IN  IF Len(word_counts) = 0
             THEN [outcome |-> "raise", exception |-> "ZeroDivisionError"]
             ELSE [outcome |-> "return",
                   value |-> [total_chunks |-> Len(chs),
                              avg_words_per_chunk |->
                                  <<py_sum(word_counts), Len(word_counts)>>,
                              min_words |-> py_min(word_counts),
                              max_words |-> py_max(word_counts),
                              total_words |-> py_sum(word_counts),
                              method |-> chs[1].method]]

\* no call made yet, or a call that returned nothing to report
NoCall == [outcome |-> "none"]
Returned == [outcome |-> "return"]

\* a chunker not yet constructed, with the text it will be given
ChunkStart(texts) ==
    /\ constructed = FALSE
    /\ chunk_size = 0
    /\ overlap = 0
    /\ cOp = "none"
    /\ cText \in texts
    /\ cMethod = ""
    /\ cResult = NoCall
    /\ chunks = <<>>
    /\ stats = NoCall
    /\ wPc = "idle"
    /\ wWords = <<>>
    /\ wStart = 0
    /\ wChunkId = 0

ChunkIdle == ChunkStart({""})

ChunkInit == ChunkStart(StringsUpTo(ChunkAlphabet, MaxChunkTextLen))

\* TextChunker.__init__
Construct(cs, ov) ==
    /\ ~constructed
    /\ chunk_size' = cs
    /\ overlap' = ov
    /\ constructed' = TRUE
    /\ cOp' = "init"
    /\ UNCHANGED <<cText, cMethod, cResult, chunks, stats, wPc, wWords, wStart, wChunkId>>

\* TextChunker.chunk_by_words on the text at hand
ChunkByWords ==
    /\ constructed
    /\ chunks' = chunk_by_words(cText)
    /\ cOp' = "chunk_by_words"
    /\ cMethod' = ""
    /\ cResult' = Returned
    /\ stats' = NoCall
    /\ UNCHANGED <<constructed, chunk_size, overlap, cText, wPc, wWords, wStart, wChunkId>>

\* TextChunker.chunk_by_sentences on the text at hand
ChunkBySentences ==
    /\ constructed
    /\ chunks' = chunk_by_sentences(cText)
    /\ cOp' = "chunk_by_sentences"
    /\ cMethod' = ""
    /\ cResult' = Returned
    /\ stats' = NoCall
    /\ UNCHANGED <<constructed, chunk_size, overlap, cText, wPc, wWords, wStart, wChunkId>>

\* the list a call returned; a call that raised returned none
ReturnedList(r) == IF r.outcome = "return" THEN r.value ELSE <<>>
CallOutcome(r) == IF r.outcome = "return" THEN Returned ELSE r

\* TextChunker.chunk_text on the text at hand
ChunkText(method) ==
    /\ constructed
    /\ chunks' = ReturnedList(chunk_text(cText, method))
    /\ cResult' = CallOutcome(chunk_text(cText, method))
    /\ cOp' = "chunk_text"
    /\ cMethod' = method
    /\ stats' = NoCall
    /\ UNCHANGED <<constructed, chunk_size, overlap, cText, wPc, wWords, wStart, wChunkId>>

\* TextChunker.get_chunk_stats on the list the last chunking call returned
GetChunkStats ==
    /\ constructed
    /\ stats' = get_chunk_stats(chunks)
    /\ cOp' = "get_chunk_stats"
    /\ cMethod' = ""
    /\ cResult' = NoCall
    /\ UNCHANGED <<constructed, chunk_size, overlap, cText, chunks, wPc, wWords,
                   wStart, wChunkId>>

\* chunk_by_words, lines 126 to 129: the call begins
WordsEnter(text) ==
    /\ constructed
    /\ wPc = "idle"
    /\ cText' = text
    /\ wWords' = split(text)
    /\ chunks' = <<>>
    /\ wChunkId' = 0
    /\ wStart' = 0
    /\ wPc' = "loop"
    /\ cOp' = "chunk_by_words"
    /\ cMethod' = ""
    /\ cResult' = NoCall
    /\ stats' = NoCall
    /\ UNCHANGED <<constructed, chunk_size, overlap>>

\* Stalled never seeing the cursor stand still
StalledNever(next_start, last_start) == FALSE

\* chunk_by_words: if start <= chunks[-1]['start_word']: break
Stalled(next_start, last_start) == next_start <= last_start

\* chunk_by_words: one test of the while condition and, if it holds, one pass
\* through the loop body; the call returns when the loop is left
WordsStep ==
    /\ wPc = "loop"
    /\ Len(chunks) < MaxChunks
    /\ IF ~StartInText(wStart, Len(wWords))
       THEN /\ wPc' = "done"
            /\ cResult' = Returned
            /\ UNCHANGED <<chunks, wChunkId, wStart>>
       ELSE /\ chunks' = Append(chunks,
                                WordChunk(wWords, wChunkId, wStart,
                                          WindowEnd(wStart, Len(wWords))))
            /\ wChunkId' = WordNextId(wChunkId)
            /\ wStart' = NextStart(chunks'[Len(chunks')].end_word)
            /\ wPc' = IF Stalled(wStart', chunks'[Len(chunks')].start_word)
                      THEN "done" ELSE "loop"
            /\ cResult' = IF wPc' = "done" THEN Returned ELSE NoCall
    /\ UNCHANGED <<constructed, chunk_size, overlap, cOp, cText, cMethod, stats,
                   wWords>>

\* the chunker given a text of sentences
SentenceInit == ChunkStart(StringsUpTo(SentenceFragments, MaxFragments))

-----------------------------------------------------------------------------
(* Matcher *)

stop_words ==
    {"a", "an", "the", "is", "are", "am", "be", "to", "of", "in",
     "on", "at", "for", "with", "do", "does", "i", "you", "we",
     "they", "there", "can", "will", "it", "what", "how", "when", "where"}

synonyms ==
    ("sign" :> {"register", "signup", "join", "enroll"}) @@
    ("register" :> {"sign", "signup", "join", "enroll"}) @@
    ("signup" :> {"sign", "register", "join", "enroll"}) @@
    ("pay" :> {"fee", "cost", "price", "money", "charge"}) @@
    ("fee" :> {"pay", "cost", "price", "money", "charge"}) @@
    ("cost" :> {"pay", "fee", "price", "money", "charge"}) @@
    ("start" :> {"schedule", "time", "begin", "when"}) @@
    ("time" :> {"schedule", "start", "when"}) @@
    ("when" :> {"time", "schedule", "start"}) @@
    ("where" :> {"venue", "location", "place"}) @@
    ("venue" :> {"where", "location", "place"}) @@
    ("location" :> {"where", "venue", "place"})

\* floats as fractions with a positive denominator
Zero == <<0, 1>>
FracLess(x, y) == x[1] * y[2] < y[1] * x[2]
FracEq(x, y) == x[1] * y[2] = y[1] * x[2]

\* the answers of the two "no answer" results (without their emoji)
NoFaqsAnswer == "No FAQs loaded yet! Please add some FAQs first."
NoMatchAnswer == "I couldn't find a good answer to that question. Could you rephrase it?"

\* the value of an optional field: <<>> is None, <<v>> is v
None == <<>>
Some(v) == <<v>>

\* SynonymsOf following the synonyms of the synonyms as well
SynonymsOfChased(word) ==
    synonyms[word]
    \cup UNION {synonyms[other] : other \in synonyms[word] \cap DOMAIN synonyms}

\* expand_with_synonyms: self.synonyms[word]
SynonymsOf(word) == synonyms[word]

\* expand_with_synonyms returning the words it was given
ExpandNothing(words) == words

\* FAQFinder.expand_with_synonyms
expand_with_synonyms(words) ==
    words \cup UNION {SynonymsOf(word) : word \in words \cap DOMAIN synonyms}

\* find_answer, steps 1 to 3: the word set of the user's question
UserWords(question) ==
    LET user_clean == clean_text(question)
        user_words_raw == ToSet(split(user_clean)) \ stop_words
        expanded == expand_with_synonyms(user_words_raw)
    IN  IF expanded = {} THEN ToSet(split(user_clean)) ELSE expanded

\* find_answer, loop body: the word set of one stored entry
FaqWords(faq) ==
    LET faq_words_raw == ToSet(split(faq.question_clean)) \ stop_words
        expanded == expand_with_synonyms(faq_words_raw)
    IN  IF expanded = {} THEN ToSet(split(faq.question_clean)) ELSE expanded

\* Score with the overlap measured against the user's words only
ScoreOverUserWords(uw, fw) ==
    LET intersection == uw \cap fw
    IN  IF Cardinality(uw) > 0
        THEN <<Cardinality(intersection), Cardinality(uw)>>
        ELSE Zero

\* find_answer, loop body: the score of one entry
Score(uw, fw) ==
    LET intersection == uw \cap fw
        union == uw \cup fw
    IN  IF Cardinality(union) > 0
        THEN <<Cardinality(intersection), Cardinality(union)>>
        ELSE Zero

\* find_answer, loop body: if score > best_score
Improves(score, best) == FracLess(best, score)

\* the for loop of find_answer from entry i on, sc[i] being the score computed
\* for entry i; yields <<best_match, best_score>>
RECURSIVE BestLoop(_, _, _, _)
BestLoop(sc, i, bm, bs) ==
    IF i > Len(sc) THEN <<bm, bs>>
    ELSE IF Improves(sc[i], bs)
         THEN BestLoop(sc, i + 1, i, sc[i])
         ELSE BestLoop(sc, i + 1, bm, bs)

\* NoFaqs with the early return missing
NoFaqsUnchecked == FALSE

\* find_answer, the early return on an empty corpus: if not self.faqs
NoFaqs == Len(faqs) = 0

\* find_answer, step 5
Answer(bm, bs, th) ==
    IF FracLess(bs, th)
    THEN [outcome |-> "return", answer |-> NoMatchAnswer,
          confidence |-> bs, matched_question |-> None]
    ELSE IF bm = 0
    THEN [outcome |-> "raise", exception |-> "TypeError"]
    ELSE [outcome |-> "return", answer |-> faqs[bm].answer,
          confidence |-> bs, matched_question |-> Some(faqs[bm].question)]

MatchInit ==
    /\ faqs = <<>>
    /\ mOp = "init"
    /\ user_question = ""
    /\ threshold = Zero
    /\ user_words = {}
    /\ faq_words = <<>>
    /\ scores = <<>>
    /\ best_match = 0
    /\ best_score = Zero
    /\ result = [outcome |-> "none"]
    /\ added = <<>>
    /\ file = [exists |-> FALSE]
    /\ xWords = {}
    /\ xExpanded = {}

\* add_faq: the entry stored for a pair
StoredEntry(question, answer) ==
    [question |-> question,
     answer |-> answer,
     question_clean |-> clean_text(question)]

\* NewFaqs putting the entry in front
NewFaqsPrepending(entry) == <<entry>> \o faqs

\* add_faq: self.faqs.append(...)
NewFaqs(entry) == Append(faqs, entry)

\* FAQFinder.add_faq; the frame of an earlier find_answer is gone
AddFaq(question, answer) ==
    /\ faqs' = NewFaqs(StoredEntry(question, answer))
    /\ added' = Append(added, <<question, answer>>)
    /\ mOp' = "add_faq"
    /\ user_question' = ""
    /\ threshold' = Zero
    /\ user_words' = {}
    /\ faq_words' = <<>>
    /\ scores' = <<>>
    /\ best_match' = 0
    /\ best_score' = Zero
    /\ result' = [outcome |-> "return"]
    /\ UNCHANGED <<file, xWords, xExpanded>>

\* load_from_file: '|' in line
HasDelimiter(line) == \E i \in 1..Len(line) : CharAt(line, i) = "|"

\* FirstDelimiter finding the last '|' of the line
LastDelimiter(line) ==
    CHOOSE i \in 1..Len(line) :
        /\ CharAt(line, i) = "|"
        /\ \A j \in (i + 1)..Len(line) : CharAt(line, j) # "|"

\* where line.split('|', 1) splits
FirstDelimiter(line) ==
    CHOOSE i \in 1..Len(line) :
        /\ CharAt(line, i) = "|"
        /\ \A j \in 1..(i - 1) : CharAt(line, j) # "|"

\* line.split('|', 1) of a line that has a '|'
SplitOnce(line) ==
    <<SubSeq(line, 1, FirstDelimiter(line) - 1),
      SubSeq(line, FirstDelimiter(line) + 1, Len(line))>>

\* the for loop of load_from_file: the pairs add_faq is called with
RECURSIVE LoadCalls(_)
LoadCalls(lines) ==
    IF lines = <<>> THEN <<>>
    ELSE LET line == strip(Head(lines))
         IN  (IF line # "" /\ HasDelimiter(line)
              THEN <<<<strip(SplitOnce(line)[1]), strip(SplitOnce(line)[2])>>>>
              ELSE <<>>)
             \o LoadCalls(Tail(lines))

\* the files load_from_file can find: none, or one of up to MaxLines lines
RECURSIVE LinesUpTo(_)
LinesUpTo(n) ==
    IF n = 0 THEN {<<>>}
    ELSE LinesUpTo(n - 1)
         \cup {Append(lines, line) : lines \in LinesUpTo(n - 1), line \in FileLines}

Files ==
    {[exists |-> FALSE]}
    \cup {[exists |-> TRUE, lines |-> lines] : lines \in LinesUpTo(MaxLines)}

\* FAQFinder.load_from_file; the frame of an earlier find_answer is gone
LoadFromFile(f) ==
    /\ Len(faqs) < MaxFaqs
    /\ file' = f
    /\ mOp' = "load_from_file"
    /\ IF f.exists
       THEN /\ added' = added \o LoadCalls(f.lines)
            /\ faqs' = faqs \o [i \in 1..(Len(added') - Len(added)) |->
                                  StoredEntry(added'[Len(added) + i][1],
                                              added'[Len(added) + i][2])]
            /\ result' = [outcome |-> "return", printed |-> "Loaded"]
       ELSE /\ UNCHANGED <<faqs, added>>
            /\ result' = [outcome |-> "return", printed |-> "File not found"]
    /\ user_question' = ""
    /\ threshold' = Zero
    /\ user_words' = {}
    /\ faq_words' = <<>>
    /\ scores' = <<>>
    /\ best_match' = 0
    /\ best_score' = Zero
    /\ UNCHANGED <<xWords, xExpanded>>

\* FAQFinder.expand_with_synonyms called on its own; expanded = set(words) is
\* a copy, so the caller's set stays as it was
ExpandWithSynonyms(terms) ==
    /\ xWords' = terms
    /\ xExpanded' = expand_with_synonyms(terms)
    /\ mOp' = "expand_with_synonyms"
    /\ result' = [outcome |-> "return"]
    /\ UNCHANGED <<faqs, added, file, user_question, threshold, user_words,
                   faq_words, scores, best_match, best_score>>

\* FAQFinder.find_answer
FindAnswer(question, th) ==
    /\ mOp' = "find_answer"
    /\ user_question' = question
    /\ threshold' = th
    /\ UNCHANGED <<faqs, added, file, xWords, xExpanded>>
    /\ IF NoFaqs
       THEN /\ user_words' = {}
            /\ faq_words' = <<>>
            /\ scores' = <<>>
            /\ best_match' = 0
            /\ best_score' = Zero
            /\ result' = [outcome |-> "return", answer |-> NoFaqsAnswer,
                          confidence |-> Zero, matched_question |-> None]
       ELSE /\ user_words' = UserWords(question)
            /\ faq_words' = [i \in 1..Len(faqs) |-> FaqWords(faqs[i])]
            /\ scores' = [i \in 1..Len(faqs) |-> Score(user_words', faq_words'[i])]
            /\ best_match' = BestLoop(scores', 1, 0, Zero)[1]
            /\ best_score' = BestLoop(scores', 1, 0, Zero)[2]
            /\ result' = Answer(best_match', best_score', th)

-----------------------------------------------------------------------------
(* Gemini wrapper *)

\* __init__ assigns api_key, temperature, verbose, history and persona; no
\* method of the class assigns self.model
HasModel == FALSE

NoModel ==
    [outcome |-> "raise", exception |-> "AttributeError",
     message |-> "'GeminiWrapper' object has no attribute 'model'"]

GeminiIdle ==
    /\ gConstructed = FALSE
    /\ api_key = ""
    /\ temperature = Zero
    /\ verbose = FALSE
    /\ history = <<>>
    /\ persona = None
    /\ chat_session = FALSE
    /\ gOp = "none"
    /\ gResult = [outcome |-> "none"]

\* __init__: api_key or os.getenv('GEMINI_API_KEY'); None and "" are falsy
KeyOrEnv(key, env) ==
    IF key # None /\ key[1] # "" THEN key[1]
    ELSE IF env # None THEN env[1]
    ELSE ""

\* GeminiWrapper.__init__
GeminiInit(key, env, temp, verb) ==
    /\ ~gConstructed
    /\ gOp' = "init"
    /\ IF KeyOrEnv(key, env) = ""
       THEN /\ gResult' = [outcome |-> "raise", exception |-> "ValueError"]
            /\ UNCHANGED <<gConstructed, api_key, temperature, verbose, history,
                           persona, chat_session>>
       ELSE /\ api_key' = KeyOrEnv(key, env)
            /\ temperature' = temp
            /\ verbose' = verb
            /\ history' = <<>>
            /\ persona' = None
            /\ gConstructed' = TRUE
            /\ gResult' = [outcome |-> "return"]
            /\ UNCHANGED chat_session

\* GeminiWrapper.set_persona
SetPersona(persona_description) ==
    /\ gConstructed
    /\ persona' = Some(persona_description)
    /\ gOp' = "set_persona"
    /\ gResult' = [outcome |-> "return"]
    /\ UNCHANGED <<gConstructed, api_key, temperature, verbose, history,
                   chat_session>>

\* GeminiWrapper.generate; answered tells whether the API call succeeds
Generate(prompt, answered) ==
    /\ gConstructed
    /\ gOp' = "generate"
    /\ IF ~HasModel
       THEN /\ gResult' = [outcome |-> "return",
                           value |-> "Error calling Gemini API: " \o NoModel.message]
            /\ UNCHANGED history
       ELSE IF answered
       THEN /\ gResult' = [outcome |-> "return", value |-> "response.text"]
            /\ history' = Append(history, [prompt |-> prompt,
                                           response |-> "response.text",
                                           temperature |-> temperature])
       ELSE /\ gResult' = [outcome |-> "return",
                           value |-> "Error calling Gemini API: failure"]
            /\ UNCHANGED history
    /\ UNCHANGED <<gConstructed, api_key, temperature, verbose, persona,
                   chat_session>>

\* GeminiWrapper.chat; started and sent tell whether start_chat and
\* send_message succeed
Chat(message, started, sent) ==
    /\ gConstructed
    /\ gOp' = "chat"
    /\ IF ~chat_session /\ ~HasModel
       THEN /\ gResult' = NoModel
            /\ UNCHANGED chat_session
       ELSE IF ~chat_session /\ ~started
       THEN /\ gResult' = [outcome |-> "raise", exception |-> "Exception",
                           message |-> "failure"]
            /\ UNCHANGED chat_session
       ELSE /\ chat_session' = TRUE
            /\ gResult' = IF sent
                          THEN [outcome |-> "return", value |-> "response.text"]
                          ELSE [outcome |-> "return", value |-> "Chat error: failure"]
    /\ UNCHANGED <<gConstructed, api_key, temperature, verbose, history, persona>>

\* GeminiWrapper.clear_history
ClearHistory ==
    /\ gConstructed
    /\ history' = <<>>
    /\ chat_session' = FALSE
    /\ gOp' = "clear_history"
    /\ gResult' = [outcome |-> "return"]
    /\ UNCHANGED <<gConstructed, api_key, temperature, verbose, persona>>

\* GeminiWrapper.get_history
GetHistory ==
    /\ gConstructed
    /\ gOp' = "get_history"
    /\ gResult' = [outcome |-> "return", value |-> history]
    /\ UNCHANGED <<gConstructed, api_key, temperature, verbose, history, persona,
                   chat_session>>

\* __init__ assigns no self.model_name either
HasModelName == FALSE

\* GeminiWrapper.get_stats
GetStats ==
    /\ gConstructed
    /\ gOp' = "get_stats"
    /\ gResult' = IF ~HasModelName
                  THEN [outcome |-> "raise", exception |-> "AttributeError",
                        message |-> "'GeminiWrapper' object has no attribute 'model_name'"]
                  ELSE [outcome |-> "return",
                        value |-> [model |-> "model_name",
                                   temperature |-> temperature,
                                   total_interactions |-> Len(history),
                                   has_persona |-> persona # None]]
    /\ UNCHANGED <<gConstructed, api_key, temperature, verbose, history, persona,
                   chat_session>>

-----------------------------------------------------------------------------
(* Specifications: one per component, the other components idle *)

NormIdle == nText = "" /\ nClean = "" /\ nPc = "idle"

InitNormalizer == NormInit /\ ChunkIdle /\ MatchInit /\ GeminiIdle
NextNormalizer ==
    \/ CleanText /\ UNCHANGED <<cVars, mVars, gVars>>
    \/ CleanAgain /\ UNCHANGED <<cVars, mVars, gVars>>
SpecNormalizer == InitNormalizer /\ [][NextNormalizer]_vars

InitChunker == NormIdle /\ ChunkInit /\ MatchInit /\ GeminiIdle
NextChunker ==
    \/ \E cs \in -1..MaxChunkSize, ov \in -1..MaxOverlap :
            Construct(cs, ov) /\ UNCHANGED <<nVars, mVars, gVars>>
    \/ ChunkByWords /\ UNCHANGED <<nVars, mVars, gVars>>
SpecChunker == InitChunker /\ [][NextChunker]_vars

InitSentences == NormIdle /\ SentenceInit /\ MatchInit /\ GeminiIdle

NextSentences ==
    \/ \E cs \in -1..MaxChunkSize, ov \in -1..MaxOverlap :
           Construct(cs, ov) /\ UNCHANGED <<nVars, mVars, gVars>>
    \/ ChunkByWords /\ UNCHANGED <<nVars, mVars, gVars>>
    \/ ChunkBySentences /\ UNCHANGED <<nVars, mVars, gVars>>
    \/ \E method \in Methods : ChunkText(method) /\ UNCHANGED <<nVars, mVars, gVars>>
    \/ GetChunkStats /\ UNCHANGED <<nVars, mVars, gVars>>

SpecSentences == InitSentences /\ [][NextSentences]_vars

InitWordLoop == NormIdle /\ ChunkIdle /\ MatchInit /\ GeminiIdle

NextWordLoop ==
    \/ \E cs \in -1..MaxChunkSize, ov \in -1..MaxOverlap :
           Construct(cs, ov) /\ UNCHANGED <<nVars, mVars, gVars>>
    \/ \E text \in StringsUpTo(LoopAlphabet, MaxChunkTextLen) :
           WordsEnter(text) /\ UNCHANGED <<nVars, mVars, gVars>>
    \/ WordsStep /\ UNCHANGED <<nVars, mVars, gVars>>

\* the interpreter keeps running a call that has begun
SpecWordLoop ==
    /\ InitWordLoop
    /\ [][NextWordLoop]_vars
    /\ WF_vars(WordsStep /\ UNCHANGED <<nVars, mVars, gVars>>)

InitMatcher == NormIdle /\ ChunkIdle /\ MatchInit /\ GeminiIdle
NextMatcher ==
    \/ \E question \in Questions, answer \in Answers :
           /\ Len(faqs) < MaxFaqs
           /\ AddFaq(question, answer) /\ UNCHANGED <<nVars, cVars, gVars>>
    \/ \E question \in Queries, th \in Thresholds :
           FindAnswer(question, th) /\ UNCHANGED <<nVars, cVars, gVars>>
SpecMatcher == InitMatcher /\ [][NextMatcher]_vars

NextScenario ==
    \/ \E faq \in ScenarioFaqs :
           /\ Len(faqs) < MaxFaqs
           /\ AddFaq(faq[1], faq[2]) /\ UNCHANGED <<nVars, cVars, gVars>>
    \/ \E question \in ScenarioQueries, th \in Thresholds :
           FindAnswer(question, th) /\ UNCHANGED <<nVars, cVars, gVars>>

SpecScenario == InitMatcher /\ [][NextScenario]_vars

NextLoader ==
    \E f \in Files : LoadFromFile(f) /\ UNCHANGED <<nVars, cVars, gVars>>

SpecLoader == InitMatcher /\ [][NextLoader]_vars

\* the demo: the FAQs are added in their order, questions are asked
NextDemo ==
    \/ \E i \in 1..Len(gdg_faqs) :
           /\ i = Len(faqs) + 1
           /\ AddFaq(gdg_faqs[i][1], gdg_faqs[i][2]) /\ UNCHANGED <<nVars, cVars, gVars>>
    \/ \E question \in test_queries \cup unrelated, th \in Thresholds :
           FindAnswer(question, th) /\ UNCHANGED <<nVars, cVars, gVars>>

SpecDemo == InitMatcher /\ [][NextDemo]_vars

NextExpand ==
    \E terms \in SUBSET ExpandWords :
        ExpandWithSynonyms(terms) /\ UNCHANGED <<nVars, cVars, gVars>>

SpecExpand == InitMatcher /\ [][NextExpand]_vars

InitGemini == NormIdle /\ ChunkIdle /\ MatchInit /\ GeminiIdle

NextGemini ==
    \/ \E key \in ApiKeys, env \in EnvKeys, temp \in Temperatures, verb \in BOOLEAN :
           GeminiInit(key, env, temp, verb) /\ UNCHANGED <<nVars, cVars, mVars>>
    \/ \E persona_description \in Personas :
           SetPersona(persona_description) /\ UNCHANGED <<nVars, cVars, mVars>>
    \/ \E prompt \in Prompts, answered \in BOOLEAN :
           Generate(prompt, answered) /\ UNCHANGED <<nVars, cVars, mVars>>
    \/ \E message \in Messages, started \in BOOLEAN, sent \in BOOLEAN :
           Chat(message, started, sent) /\ UNCHANGED <<nVars, cVars, mVars>>
    \/ ClearHistory /\ UNCHANGED <<nVars, cVars, mVars>>
    \/ GetHistory /\ UNCHANGED <<nVars, cVars, mVars>>
    \/ GetStats /\ UNCHANGED <<nVars, cVars, mVars>>

SpecGemini == InitGemini /\ [][NextGemini]_vars

-----------------------------------------------------------------------------
(* Normalizer properties, checked under SpecNormalizer *)

\* C1: clean_text is idempotent: cleaning the result of clean_text again
\* returns it unchanged (after CleanAgain, nText holds the first result and
\* nClean the second).
C1_Idempotent == nPc = "recleaned" => nClean = nText

\* a string of lowercase letters, digits and single spaces that neither
\* starts nor ends with a space
IsCanonical(s) ==
    /\ \A i \in 1..Len(s) : IsLowerAlnum(CharAt(s, i)) \/ CharAt(s, i) = " "
    /\ \A i \in 1..(Len(s) - 1) : ~(CharAt(s, i) = " " /\ CharAt(s, i + 1) = " ")
    /\ s # "" => (CharAt(s, 1) # " " /\ CharAt(s, Len(s)) # " ")

\* C2: the result of clean_text consists only of lowercase ASCII letters,
\* digits and single spaces, with no other whitespace and no leading or
\* trailing space.
C2_Canonical == nPc = "cleaned" => IsCanonical(nClean)

-----------------------------------------------------------------------------
(* Chunker properties, checked under SpecChunker *)

ValidConfig == chunk_size > 0 /\ 0 <= overlap /\ overlap < chunk_size

\* the token positions [start_word, end_word) of a chunk
Span(chunk) == chunk.start_word .. (chunk.end_word - 1)

\* C3: for a valid configuration chunk_by_words drops no token: the first
\* chunk starts at token 0, the last chunk ends at token n, the spans of the
\* chunks cover exactly [0, n), and each chunk's text is the single-space
\* join of the tokens of its span.
C3_NoTokenDropped ==
    (cOp = "chunk_by_words" /\ ValidConfig) =>
        LET tokens == split(cText)
            n == Len(tokens)
        IN  /\ n > 0 => /\ Len(chunks) > 0
                        /\ chunks[1].start_word = 0
                        /\ chunks[Len(chunks)].end_word = n
            /\ UNION {Span(chunks[k]) : k \in 1..Len(chunks)} = 0..(n - 1)
            /\ \A k \in 1..Len(chunks) :
                   /\ 0 <= chunks[k].start_word
                   /\ chunks[k].end_word <= n
                   /\ chunks[k].text =
                        join(" ", SubSeq(tokens, chunks[k].start_word + 1,
                                         chunks[k].end_word))

\* four tokens cut into three or more overlapping windows
C3_Witness ==
    /\ cOp = "chunk_by_words"
    /\ ValidConfig
    /\ overlap > 0
    /\ Len(split(cText)) = 4
    /\ Len(chunks) >= 3

\* C4: a chunker exists only for a valid configuration: construction with
\* chunk_size <= 0, overlap < 0 or overlap >= chunk_size fails.
C4_ConstructionValidates == constructed => ValidConfig

-----------------------------------------------------------------------------
(* Matcher properties, checked under SpecMatcher *)

Searched == mOp = "find_answer" /\ Len(faqs) > 0

\* C5: on a non-empty corpus find_answer raises nothing and returns a result
\* with the fields answer, confidence and matched_question, whatever the
\* query and the threshold.
C5_NeverRaises ==
    Searched =>
        /\ result.outcome = "return"
        /\ {"answer", "confidence", "matched_question"} \subseteq DOMAIN result

\* the largest of the scores computed for the entries
MaxScore ==
    CHOOSE s \in ToSet(scores) : \A t \in ToSet(scores) : ~FracLess(s, t)

\* C6: on a non-empty corpus the result has no matched question exactly when
\* the best score is strictly below the threshold, and then the confidence is
\* the best score; otherwise, equality included, the result carries the answer
\* and the question of a best-scoring entry and the best score as confidence.
C6_ThresholdRule ==
    Searched =>
        /\ result.outcome = "return"
        /\ FracEq(result.confidence, MaxScore)
        /\ IF FracLess(MaxScore, threshold)
           THEN result.matched_question = None
           ELSE \E i \in 1..Len(faqs) :
                    /\ FracEq(scores[i], MaxScore)
                    /\ result.answer = faqs[i].answer
                    /\ result.matched_question = Some(faqs[i].question)

\* C7: the entry find_answer selects has the maximum score, and of the entries
\* with the maximum score it is the first in corpus order, also when the
\* maximum score is 0.0.
C7_FirstMaximum ==
    Searched =>
        /\ best_match \in 1..Len(faqs)
        /\ \A j \in 1..Len(faqs) : ~FracLess(scores[best_match], scores[j])
        /\ \A j \in 1..(best_match - 1) : FracLess(scores[j], scores[best_match])

\* filter, fall back to the unfiltered tokens when nothing is left, then expand
FilterFallbackExpand(tokens) ==
    LET filtered == ToSet(tokens) \ stop_words
    IN  expand_with_synonyms(IF filtered = {} THEN ToSet(tokens) ELSE filtered)

\* C8: the set scored for the query and for each entry is the synonym
\* expansion of the stop-word-filtered tokens, or of the unfiltered tokens
\* when every token is a stop word.
C8_FallbackExpanded ==
    Searched =>
        /\ user_words = FilterFallbackExpand(split(clean_text(user_question)))
        /\ \A i \in 1..Len(faqs) :
               faq_words[i] = FilterFallbackExpand(split(faqs[i].question_clean))

\* C9: the score of an entry is |Q \cap E| / |Q \cup E| for the query set Q and
\* the entry set E, 0.0 when the union is empty, the same with Q and E
\* exchanged, and the confidence of every result lies in [0, 1].
C9_Jaccard ==
    mOp = "find_answer" =>
        /\ \A i \in 1..Len(scores) :
               LET common == Cardinality({w \in user_words : w \in faq_words[i]})
                   total == Cardinality(user_words) + Cardinality(faq_words[i])
                                - common
               IN  /\ total = 0 => scores[i] = Zero
                   /\ total > 0 => scores[i] = <<common, total>>
                   /\ scores[i] = Score(faq_words[i], user_words)
        /\ Len(scores) = Len(faqs)
        /\ result.outcome = "return" =>
               /\ result.confidence[2] > 0
               /\ 0 <= result.confidence[1]
               /\ result.confidence[1] <= result.confidence[2]

\* an answer returned with a confidence strictly between 0 and 1
C9_Witness ==
    /\ mOp = "find_answer"
    /\ result.outcome = "return"
    /\ result.matched_question # None
    /\ 0 < result.confidence[1]
    /\ result.confidence[1] < result.confidence[2]
    /\ \E i \in 1..Len(scores) : user_words \ faq_words[i] # {}
    /\ \E i \in 1..Len(scores) : faq_words[i] \ user_words # {}

\* C10: find_answer on an empty corpus returns the "no data" result with
\* confidence exactly 0.0 and no matched question, for every query and
\* threshold, raises nothing and leaves the corpus as it was.
C10_EmptyCorpus ==
    /\ [](mOp = "find_answer" /\ Len(faqs) = 0 =>
            /\ result.outcome = "return"
            /\ result.answer = NoFaqsAnswer
            /\ result.confidence = Zero
            /\ result.matched_question = None)
    /\ [][mOp' = "find_answer" => faqs' = faqs]_vars

\* a search of the empty corpus at a threshold of 0.0
C10_Witness ==
    /\ mOp = "find_answer"
    /\ Len(faqs) = 0
    /\ user_question = "How can I sign up?"
    /\ threshold = Zero
    /\ result.outcome = "return"

\* the corpus of the two-entry scenario, as add_faq stores it
ScenarioCorpus ==
    <<StoredEntry("How do I register for the event?", "Visit our website..."),
      StoredEntry("Is there a registration fee?", "Free to attend")>>

ScenarioCall ==
    /\ mOp = "find_answer"
    /\ faqs = ScenarioCorpus
    /\ user_question = "How can I sign up?"
    /\ threshold = <<15, 100>>

\* C11: with the corpus of "How do I register for the event?" and "Is there a
\* registration fee?", find_answer("How can I sign up?") at threshold 0.15
\* returns the first question as matched_question, with a confidence above 0.15.
C11_SignUpMatchesRegister ==
    ScenarioCall =>
        /\ result.outcome = "return"
        /\ result.matched_question = Some("How do I register for the event?")
        /\ result.answer = "Visit our website..."
        /\ FracLess(<<15, 100>>, result.confidence)

C11_Witness ==
    /\ ScenarioCall
    /\ user_words = {"sign", "up", "register", "signup", "join", "enroll"}
    /\ best_match = 1
    /\ FracEq(result.confidence, <<5, 7>>)

\* the last call chunked the text by sentences
SentenceChunked ==
    \/ cOp = "chunk_by_sentences"
    \/ cOp = "chunk_text" /\ cMethod = "sentences"

\* the sentences i..j of the text, joined as a chunk's text is
SentenceRun(sentences, i, j) == join(" ", SubSeq(sentences, i, j))

\* C12: chunk_by_sentences never splits inside a sentence: every chunk's text
\* is the single-space join of a contiguous run of whole sentences of
\* split_into_sentences(text), and its sentence_count is the length of that run.
C12_WholeSentences ==
    SentenceChunked =>
        LET sentences == split_into_sentences(cText)
        IN  \A k \in 1..Len(chunks) :
                \E i \in 1..Len(sentences) : \E j \in i..Len(sentences) :
                    /\ chunks[k].text = SentenceRun(sentences, i, j)
                    /\ chunks[k].sentence_count = j - i + 1

C12_Witness ==
    /\ SentenceChunked
    /\ Len(chunks) >= 3
    /\ \E k \in 1..Len(chunks) : chunks[k].sentence_count = 3
    /\ Len(split_into_sentences(cText)) = 4

\* C13: a sentence whose own word count exceeds chunk_size is emitted alone:
\* every chunk that contains such a sentence has sentence_count 1, wherever
\* the sentence occurs in the text.
C13_LongSentenceAlone ==
    (SentenceChunked /\ ValidConfig) =>
        LET sentences == split_into_sentences(cText)
        IN  \A k \in 1..Len(chunks) :
                \A i \in 1..Len(sentences) : \A j \in i..Len(sentences) :
                    (/\ chunks[k].text = SentenceRun(sentences, i, j)
                     /\ chunks[k].sentence_count = j - i + 1
                     /\ \E m \in i..j : count_words(sentences[m]) > chunk_size)
                    => chunks[k].sentence_count = 1

\* the last call returned a list of chunks
Chunked ==
    \/ cOp = "chunk_by_words"
    \/ cOp = "chunk_by_sentences"
    \/ cOp = "chunk_text" /\ cResult.outcome = "return"

\* C14: for both strategies the chunks of one call carry chunk_id 0, 1, 2, ...
\* in emission order, with no gap and no repeat: the i-th chunk has index i.
C14_ChunkIdsCount ==
    Chunked => \A k \in 1..Len(chunks) : chunks[k].chunk_id = k - 1

C14_Witness ==
    /\ cOp = "chunk_text"
    /\ cMethod = "sentences"
    /\ Len(chunks) >= 3
    /\ chunks[Len(chunks)].chunk_id = Len(chunks) - 1

\* the last call chunked the text by words
WordChunked ==
    \/ cOp = "chunk_by_words"
    \/ cOp = "chunk_text" /\ cMethod = "words"

\* C15: in word-window chunking only the final chunk may be shorter than
\* chunk_size: under a valid configuration every chunk but the last spans
\* exactly chunk_size tokens, and consecutive chunks start chunk_size - overlap
\* tokens apart.
C15_OnlyLastShort ==
    (WordChunked /\ ValidConfig) =>
        \A k \in 1..(Len(chunks) - 1) :
            /\ chunks[k].end_word - chunks[k].start_word = chunk_size
            /\ chunks[k + 1].start_word - chunks[k].start_word
                   = chunk_size - overlap

\* C16: under a valid configuration every word-window chunk has
\* 0 <= start_word < end_word <= n, end_word - start_word <= chunk_size and
\* word_count = end_word - start_word, n being the number of tokens of the text.
C16_WindowBounds ==
    (WordChunked /\ ValidConfig) =>
        LET n == Len(split(cText))
        IN  \A k \in 1..Len(chunks) :
                /\ 0 <= chunks[k].start_word
                /\ chunks[k].start_word < chunks[k].end_word
                /\ chunks[k].end_word <= n
                /\ chunks[k].end_word - chunks[k].start_word <= chunk_size
                /\ chunks[k].word_count
                       = chunks[k].end_word - chunks[k].start_word

C16_Witness ==
    /\ WordChunked
    /\ ValidConfig
    /\ Len(chunks) >= 2
    /\ chunks[1].word_count = chunk_size
    /\ chunks[Len(chunks)].word_count < chunk_size
    /\ chunks[Len(chunks)].end_word = Len(split(cText))

\* get_chunk_stats was called with an empty list
StatsOfEmpty == cOp = "get_chunk_stats" /\ chunks = <<>>

RECURSIVE WordTotal(_, _)
WordTotal(chs, k) ==
    IF k > Len(chs) THEN 0 ELSE chs[k].word_count + WordTotal(chs, k + 1)

\* get_chunk_stats was called with a list that has chunks
StatsOfChunks == cOp = "get_chunk_stats" /\ chunks # <<>>

\* C18: for a non-empty chunk sequence get_chunk_stats returns the number of
\* chunks, the sum of their word_count, the least and the greatest word_count,
\* and an average with min_words <= avg <= max_words, that is
\* min_words * count <= total_words <= max_words * count.
C18_StatsConsistent ==
    StatsOfChunks =>
        /\ stats.outcome = "return"
        /\ LET s == stats.value
               counts == {chunks[k].word_count : k \in 1..Len(chunks)}
           IN  /\ s.total_chunks = Len(chunks)
               /\ s.total_words = WordTotal(chunks, 1)
               /\ s.min_words \in counts
               /\ \A c \in counts : s.min_words <= c
               /\ s.max_words \in counts
               /\ \A c \in counts : c <= s.max_words
               /\ FracEq(s.avg_words_per_chunk, <<s.total_words, s.total_chunks>>)
               /\ ~FracLess(s.avg_words_per_chunk, <<s.min_words, 1>>)
               /\ ~FracLess(<<s.max_words, 1>>, s.avg_words_per_chunk)
               /\ s.min_words * s.total_chunks <= s.total_words
               /\ s.total_words <= s.max_words * s.total_chunks

C18_Witness ==
    /\ StatsOfChunks
    /\ Len(chunks) >= 3
    /\ stats.outcome = "return"
    /\ stats.value.min_words < chunks[1].word_count
    /\ stats.value.max_words > stats.value.min_words

\* sub occurs in s
Contains(s, sub) ==
    \E i \in 1..(Len(s) - Len(sub) + 1) : SubSeq(s, i, i + Len(sub) - 1) = sub

\* C19: chunk_text dispatches 'words' to chunk_by_words and 'sentences' to
\* chunk_by_sentences; for any other method it fails with a ValueError whose
\* message names the two accepted values, returns no chunks and never falls
\* back to a default strategy.
C19_Dispatch ==
    cOp = "chunk_text" =>
        /\ cMethod = "words" =>
               /\ cResult.outcome = "return"
               /\ chunks = chunk_by_words(cText)
               /\ \A k \in 1..Len(chunks) : chunks[k].method = "word-based"
        /\ cMethod = "sentences" =>
               /\ cResult.outcome = "return"
               /\ chunks = chunk_by_sentences(cText)
               /\ \A k \in 1..Len(chunks) : chunks[k].method = "sentence-based"
        /\ cMethod \notin {"words", "sentences"} =>
               /\ cResult.outcome = "raise"
               /\ cResult.exception = "ValueError"
               /\ Contains(cResult.message, "'words'")
               /\ Contains(cResult.message, "'sentences'")
               /\ chunks = <<>>

C19_Witness ==
    /\ cOp = "chunk_text"
    /\ cMethod = "paragraphs"
    /\ cResult.outcome = "raise"
    /\ Len(chunk_by_sentences(cText)) >= 2
    /\ chunks = <<>>

\* the corpus holds the pairs add_faq was given, in call order, each with the
\* normalized form of its question
CorpusIsAdded ==
    faqs = [i \in 1..Len(added) |->
               [question |-> added[i][1],
                answer |-> added[i][2],
                question_clean |-> clean_text(added[i][1])]]

\* add_faq puts one entry at the end and leaves the entries before it alone
AppendsOne ==
    /\ Len(faqs') = Len(faqs) + 1
    /\ SubSeq(faqs', 1, Len(faqs)) = faqs
    /\ faqs'[Len(faqs')].question_clean = clean_text(faqs'[Len(faqs')].question)

\* C20: the corpus is append-only and ordered: add_faq appends exactly one
\* entry at the end, with the normalized question cached, and leaves the
\* earlier entries unchanged; find_answer never modifies the corpus; after any
\* sequence of add_faq and find_answer calls the corpus is the sequence of the
\* added pairs in call order.
C20_AppendOnly ==
    /\ []CorpusIsAdded
    /\ [][/\ mOp' = "add_faq" => AppendsOne
          /\ mOp' = "find_answer" => faqs' = faqs]_vars

C20_Witness ==
    /\ mOp = "find_answer"
    /\ Len(faqs) = 2
    /\ faqs[1].question # faqs[2].question
    /\ added = <<<<faqs[1].question, faqs[1].answer>>,
                 <<faqs[2].question, faqs[2].answer>>>>
    /\ result.outcome = "return"

\* the lines of a file that hold a '|', in line order
DelimiterLines(lines) == SelectSeq(lines, LAMBDA line : HasDelimiter(line))

\* the entry one such line gives: split at its first '|' only
LineEntry(line) ==
    LET i == CHOOSE k \in 1..Len(line) :
                 /\ CharAt(line, k) = "|"
                 /\ \A j \in 1..(k - 1) : CharAt(line, j) # "|"
        question == strip(SubSeq(line, 1, i - 1))
    IN  [question |-> question,
         answer |-> strip(SubSeq(line, i + 1, Len(line))),
         question_clean |-> clean_text(question)]

\* C21: load_from_file adds exactly one entry per line that contains the
\* delimiter, in line order, split at the first delimiter only; lines without
\* the delimiter and blank lines are skipped without raising; a missing file
\* is reported, raises nothing and adds no entry.
C21_LoadFromFile ==
    [][mOp' = "load_from_file" =>
          /\ result'.outcome = "return"
          /\ file'.exists =>
                 faqs' = faqs \o [k \in 1..Len(DelimiterLines(file'.lines)) |->
                                     LineEntry(DelimiterLines(file'.lines)[k])]
          /\ ~file'.exists =>
                 /\ faqs' = faqs
                 /\ result'.printed = "File not found"]_vars

C21_Witness ==
    /\ mOp = "load_from_file"
    /\ file.exists
    /\ file.lines = <<"no delimiter", " Where? | Hall | Gate 2 ">>
    /\ Len(faqs) = 2
    /\ faqs[2].question = "Where?"
    /\ faqs[2].answer = "Hall | Gate 2"

\* C22: expand_with_synonyms(terms) returns exactly terms united with the
\* table entries keyed by the members of terms, one level deep: the result
\* contains terms, and a synonym reachable only through another synonym is
\* not added (expanding {time} does not add 'begin').
C22_OneLevel ==
    mOp = "expand_with_synonyms" =>
        /\ xWords \subseteq xExpanded
        /\ \A term \in xWords \cap DOMAIN synonyms : synonyms[term] \subseteq xExpanded
        /\ \A word \in xExpanded \ xWords :
               \E term \in xWords \cap DOMAIN synonyms : word \in synonyms[term]
        /\ xWords = {"time"} => xExpanded = {"time", "schedule", "start", "when"}

C22_Witness ==
    /\ mOp = "expand_with_synonyms"
    /\ xWords = {"time"}
    /\ "start" \in xExpanded
    /\ "begin" \in synonyms["start"]
    /\ "begin" \notin xExpanded

\* C23: chunk_by_words terminates for every text and every integer
\* configuration, misconfigured ones included: a call that has begun returns,
\* and it returns either with start at or past the number of tokens or right
\* after emitting the chunk from which the new start did not advance.
C23_WordsTerminates ==
    /\ (wPc = "loop") ~> (wPc = "done")
    /\ [](wPc = "done" =>
             /\ cResult = Returned
             /\ \/ wStart >= Len(wWords)
                \/ /\ chunks # <<>>
                   /\ wStart = chunks[Len(chunks)].end_word - overlap
                   /\ wStart <= chunks[Len(chunks)].start_word
             /\ \A k \in 1..(Len(chunks) - 1) :
                    chunks[k].start_word < chunks[k + 1].start_word)

C23_Witness ==
    /\ wPc = "done"
    /\ ~ValidConfig
    /\ overlap >= chunk_size
    /\ chunk_size > 0
    /\ Len(chunks) = 1
    /\ wStart < Len(wWords)

\* the call run step by step returns what chunk_by_words returns
WordLoopAgrees == wPc = "done" => chunks = chunk_by_words(cText)

\* the token positions a word-window chunk covers
Covered(chunk) == chunk.start_word..(chunk.end_word - 1)

\* C24: under a valid configuration each word-window chunk after the first
\* starts exactly overlap tokens before the end of the chunk before it, so
\* consecutive chunks share exactly overlap tokens.
C24_OverlapShared ==
    (WordChunked /\ ValidConfig) =>
        \A k \in 1..(Len(chunks) - 1) :
            /\ chunks[k + 1].start_word = chunks[k].end_word - overlap
            /\ Cardinality(Covered(chunks[k]) \cap Covered(chunks[k + 1])) = overlap

C24_Witness ==
    /\ WordChunked
    /\ ValidConfig
    /\ overlap = 2
    /\ Len(chunks) >= 2
    /\ chunks[2].start_word = chunks[1].end_word - 2
    /\ Covered(chunks[1]) \cap Covered(chunks[2]) = {1, 2}

\* the sentences chunk k holds, as positions in split_into_sentences(text), if
\* the first chunk begins at the first sentence and every later chunk begins
\* with the last min(2, sentence_count) sentences of the chunk before it
RECURSIVE FirstSentence(_)
FirstSentence(k) ==
    IF k = 1 THEN 1
    ELSE FirstSentence(k - 1) + chunks[k - 1].sentence_count
             - Min(2, chunks[k - 1].sentence_count)

LastSentence(k) == FirstSentence(k) + chunks[k].sentence_count - 1

\* the words of sentences i..j, counted sentence by sentence
RECURSIVE RunWords(_, _, _)
RunWords(sentences, i, j) ==
    IF i > j THEN 0
    ELSE Len(split(sentences[i])) + RunWords(sentences, i + 1, j)

\* C25: every sentence chunk after the first begins with the trailing
\* min(2, k) sentences of the chunk before it, k being that chunk's
\* sentence_count, followed by at least one further sentence; and each
\* chunk's word_count is the sum of the word counts of its sentences.
C25_SentenceOverlap ==
    SentenceChunked =>
        LET sentences == split_into_sentences(cText)
        IN  \A k \in 1..Len(chunks) :
                /\ LastSentence(k) <= Len(sentences)
                /\ chunks[k].text
                       = SentenceRun(sentences, FirstSentence(k), LastSentence(k))
                /\ k > 1 => LastSentence(k) > LastSentence(k - 1)
                /\ chunks[k].word_count
                       = RunWords(sentences, FirstSentence(k), LastSentence(k))

C25_Witness ==
    /\ SentenceChunked
    /\ Len(chunks) >= 3
    /\ chunks[1].sentence_count = 1
    /\ chunks[2].sentence_count = 2
    /\ chunks[3].sentence_count = 3
    /\ chunks[3].word_count > chunks[2].word_count

\* C26: chunk_by_sentences respects the chunk_size limit: when no sentence of
\* the text has more than chunk_size words, every chunk has
\* word_count <= chunk_size.
C26_WithinChunkSize ==
    (/\ SentenceChunked
     /\ ValidConfig
     /\ \A i \in 1..Len(split_into_sentences(cText)) :
            count_words(split_into_sentences(cText)[i]) <= chunk_size)
    => \A k \in 1..Len(chunks) : chunks[k].word_count <= chunk_size

\* the demo has added its eight FAQs and asks "Where is it happening?"
DemoCall ==
    /\ mOp = "find_answer"
    /\ added = gdg_faqs
    /\ user_question = "Where is it happening?"
    /\ threshold = <<15, 100>>

\* C27: with the eight demo FAQs loaded, find_answer("Where is it happening?")
\* at the default threshold returns matched_question "Where is the venue
\* located?".
C27_WhereMatchesVenue ==
    DemoCall =>
        /\ result.outcome = "return"
        /\ result.matched_question = Some("Where is the venue located?")

\* C28: chat never raises for a wrapper that was constructed successfully:
\* a failure while creating the chat session on first use or while sending
\* the message is returned as a 'Chat error: ...' string.
C28_ChatNeverRaises ==
    (gConstructed /\ gOp = "chat") => gResult.outcome = "return"

Held(k) == FirstSentence(k)..LastSentence(k)

\* C30: chunk_by_sentences drops and reorders no sentence and always makes
\* progress: every sentence of the text is held by at least one chunk, each
\* chunk holds a run of consecutive sentences in their original order and no
\* chunk begins before the one ahead of it, every chunk after the first holds
\* a sentence that no earlier chunk holds, and there are at most as many
\* chunks as sentences (none for a text with no sentence).
C30_NoSentenceDropped ==
    SentenceChunked =>
        LET sentences == split_into_sentences(cText)
            n == Len(sentences)
            m == Len(chunks)
        IN  /\ m <= n
            /\ UNION {Held(k) : k \in 1..m} = 1..n
            /\ \A k \in 1..m :
                   /\ Held(k) # {}
                   /\ chunks[k].text
                          = SentenceRun(sentences, FirstSentence(k), LastSentence(k))
                   /\ k > 1 => /\ FirstSentence(k - 1) <= FirstSentence(k)
                               /\ \E i \in Held(k) :
                                      \A j \in 1..(k - 1) : i \notin Held(j)

\* three sentences in two chunks: the first two, then all three
C30_Witness ==
    /\ SentenceChunked
    /\ Len(split_into_sentences(cText)) = 3
    /\ Len(chunks) = 2
    /\ Held(1) = {1, 2}
    /\ Held(2) = {1, 2, 3}

=============================================================================
